---- MODULE Spec2Model ----
(***************************************************************************)
(* A model of the configuration parser of go-conf (parse.go): the stack    *)
(* engine parseData / processItem / setValue, the variable resolver        *)
(* lookupVariable, include splicing and the integer suffix decoder.        *)
(*                                                                         *)
(* One input (an item stream, the include files and the environment) is    *)
(* parsed twice in lockstep, once plain (Parse) and once pedantic          *)
(* (ParseWithChecks), so that the two results can be compared.             *)
(***************************************************************************)
EXTENDS Integers, Sequences, FiniteSets, TLC

\* ------------------------------------------------------------------ bounds

\* Number of items the lexer may deliver after the scripted prefix.
MaxItems == 3

\* Depth of nested parse calls (include files, environment values) after
\* which the call stack is taken to be exhausted.
MaxDepth == 3

\* ------------------------------------------------------- program constants

pkey == "pk"

bcryptPrefix == "2a$"

mapEndString == "}"

\* ------------------------------------------------------------------ values

NoErr == [kind |-> "none"]

VStr(s) == [k |-> "str", s |-> s]

VBool(b) == [k |-> "bool", b |-> b]

VFloat(lit) == [k |-> "float", f |-> lit]

VTime(lit) == [k |-> "time", t |-> lit]

VInt(limbs) == [k |-> "int", n |-> limbs]

\* A container carries the identity of the Go object it stands for: the file
\* of the parse call that made it and the line of the item that opened it.
EmptyMap == [k |-> "map", m |-> <<>>, id |-> <<>>]

EmptyArray == [k |-> "arr", a |-> <<>>, id |-> <<>>]

\* make(map[string]any) while the item of line `line` of `fp` is processed;
\* line 0 is the root map of the call and line -1 the first map of its stack
NewMap(fp, line) == [EmptyMap EXCEPT !.id = <<fp, line>>]

\* []any{} while the item of line `line` of `fp` is processed
NewArray(fp, line) == [EmptyArray EXCEPT !.id = <<fp, line>>]

IsMap(v) == v.k = "map"

IsArray(v) == v.k = "arr"

IsToken(v) == v.k = "tok"

\* &token{it, v, false, fp}
Token(it, v, fp) ==
  [k |-> "tok", item |-> it, value |-> v, usedVariable |-> FALSE, sourceFile |-> fp]

\* m[key] = val on a Go map
MapSet(c, key, val) ==
  [c EXCEPT !.m = [x \in (DOMAIN c.m) \cup {key} |-> IF x = key THEN val ELSE c.m[x]]]

MapHas(c, key) == key \in DOMAIN c.m

\* ------------------------------------------------- integer suffix decoder
\* An int64 is four 16-bit limbs, least significant first, in two's
\* complement; Go's int64 arithmetic wraps modulo 2^64.

LimbBase == 65536

Limbs64 == 4

Limbs128 == Limbs64 + Limbs64

UpperChars == "ABCDEFGHIJKLMNOPQRSTUVWXYZ"

LowerChars == "abcdefghijklmnopqrstuvwxyz"

DigitChars == "0123456789"

CharAt(s, i) == SubSeq(s, i, i)

\* index of character c in the table t, 0 when absent
IndexIn(t, c) ==
  IF \E i \in 1..Len(t) : CharAt(t, i) = c
  THEN CHOOSE i \in 1..Len(t) : CharAt(t, i) = c
  ELSE 0

\* unicode.IsLetter on an ASCII byte
IsLetter(c) == IndexIn(UpperChars, c) > 0 \/ IndexIn(LowerChars, c) > 0

IsDigit(c) == IndexIn(DigitChars, c) > 0

LowerChar(c) ==
  IF IndexIn(UpperChars, c) > 0 THEN CharAt(LowerChars, IndexIn(UpperChars, c)) ELSE c

\* a lower-casing that leaves every letter as it is
KeepCase(s) == s

RECURSIVE ToLower(_)
\* strings.ToLower
ToLower(s) ==
  IF Len(s) = 0 THEN s ELSE LowerChar(CharAt(s, 1)) \o ToLower(SubSeq(s, 2, Len(s)))

\* strings.HasPrefix
HasPrefix(s, pre) == Len(s) >= Len(pre) /\ SubSeq(s, 1, Len(pre)) = pre

Zero(nl) == [i \in 1..nl |-> 0]

RECURSIVE MulAdd(_, _, _, _)
\* x * c + d on limbs from limb i upwards, d the carry in; the carry out of
\* the last limb is dropped (wrap modulo LimbBase^Len(x))
MulAdd(x, c, d, i) ==
  IF i > Len(x) THEN x
  ELSE LET t == x[i] * c + d
       IN MulAdd([x EXCEPT ![i] = t % LimbBase], c, t \div LimbBase, i + 1)

Mul(x, c) == MulAdd(x, c, 0, 1)

\* two's complement negation: invert every limb and add one
Neg(x) == MulAdd([i \in 1..Len(x) |-> LimbBase - 1 - x[i]], 1, 1, 1)

IsNegative(x) == x[Len(x)] >= LimbBase \div 2

\* the same number in nl >= Len(x) limbs
SignExtend(x, nl) ==
  [i \in 1..nl |-> IF i <= Len(x) THEN x[i]
                   ELSE IF IsNegative(x) THEN LimbBase - 1 ELSE 0]

RECURSIVE Magnitude(_, _)
\* the value of a run of decimal digits, in Limbs128 limbs
Magnitude(s, acc) ==
  IF Len(s) = 0 THEN acc
  ELSE Magnitude(SubSeq(s, 2, Len(s)),
                 MulAdd(acc, 10, IndexIn(DigitChars, CharAt(s, 1)) - 1, 1))

AllDigits(s) == \A i \in 1..Len(s) : IsDigit(CharAt(s, i))

\* x < 2^63 (x unsigned, Limbs128 limbs)
FitsPositive(x) ==
  /\ \A i \in (Limbs64 + 1)..Len(x) : x[i] = 0
  /\ x[Limbs64] < LimbBase \div 2

\* x <= 2^63
FitsNegative(x) ==
  \/ FitsPositive(x)
  \/ /\ \A i \in (Limbs64 + 1)..Len(x) : x[i] = 0
     /\ x[Limbs64] = LimbBase \div 2
     /\ \A i \in 1..(Limbs64 - 1) : x[i] = 0

\* strconv.ParseInt(s, 10, 64): an optional sign, then decimal digits only;
\* a value outside int64 is an error
ParseInt(s) ==
  LET signed == Len(s) > 0 /\ CharAt(s, 1) \in {"+", "-"}
      neg    == Len(s) > 0 /\ CharAt(s, 1) = "-"
      digits == IF signed THEN SubSeq(s, 2, Len(s)) ELSE s
      mag    == Magnitude(digits, Zero(Limbs128))
      low    == [i \in 1..Limbs64 |-> mag[i]]
  IN  IF Len(digits) = 0 \/ ~AllDigits(digits) THEN [ok |-> FALSE, n |-> Zero(Limbs64)]
      ELSE IF neg THEN
             IF FitsNegative(mag) THEN [ok |-> TRUE, n |-> Neg(low)]
             ELSE [ok |-> FALSE, n |-> Zero(Limbs64)]
      ELSE IF FitsPositive(mag) THEN [ok |-> TRUE, n |-> low]
      ELSE [ok |-> FALSE, n |-> Zero(Limbs64)]

RECURSIVE SuffixStart(_, _)
\* the loop of parseNumberSuffix: the index of the last non-letter byte of
\* val at or before i, 0 when there is none
SuffixStart(val, i) ==
  IF i = 0 THEN 0
  ELSE IF ~IsLetter(CharAt(val, i)) THEN i
  ELSE SuffixStart(val, i - 1)

parseNumberSuffix(val) ==
  LET i == SuffixStart(val, Len(val))
  IN  IF i > 0 THEN <<SubSeq(val, 1, i), SubSeq(val, i + 1, Len(val))>>
      ELSE <<val, ToLower(val)>>

RECURSIVE MulTimes(_, _, _)
\* num * c * c * ... (k factors c), each product wrapping
MulTimes(num, c, k) == IF k = 0 THEN num ELSE MulTimes(Mul(num, c), c, k - 1)

\* the multiplier of a (lower-case) suffix as <<factor, exponent>>;
\* exponent 0 is the default branch
SuffixScale(suffix) ==
  CASE suffix = "k" -> <<1000, 1>>
    [] suffix = "m" -> <<1000, 2>>
    [] suffix = "g" -> <<1000, 3>>
    [] suffix = "t" -> <<1000, 4>>
    [] suffix \in {"kb", "ki", "kib"} -> <<1024, 1>>
    [] suffix \in {"mb", "mi", "mib"} -> <<1024, 2>>
    [] suffix \in {"gb", "gi", "gib"} -> <<1024, 3>>
    [] suffix \in {"tb", "ti", "tib"} -> <<1024, 4>>
    [] suffix = "p" -> <<1000, 5>>
    [] suffix \in {"pb", "pi", "pib"} -> <<1024, 5>>
    [] suffix = "e" -> <<1000, 6>>
    [] suffix \in {"eb", "ei", "eib"} -> <<1024, 6>>
    [] OTHER -> <<1, 0>>

applySuffix(num, suffix) ==
  LET sc == SuffixScale(ToLower(suffix))
  IN  MulTimes(num, sc[1], sc[2])

parseInteger(val) ==
  LET ns  == parseNumberSuffix(val)
      num == ParseInt(ns[1])
  IN  IF ~num.ok THEN [err |-> [kind |-> "InvalidInteger", val |-> val], v |-> VInt(Zero(Limbs64))]
      ELSE [err |-> NoErr, v |-> VInt(applySuffix(num.n, ns[2]))]

\* n * m as a mathematical integer, in Limbs128 limbs (it always fits)
ExactProduct(n, sc) == MulTimes(SignExtend(n, Limbs128), sc[1], sc[2])

parseBool(val) ==
  IF ToLower(val) \in {"true", "yes", "on"} THEN TRUE ELSE FALSE

\* -------------------------------------------- collaborators outside parse.go

\* strconv.ParseFloat accepts (among others) an optionally signed run of
\* digits with at most one decimal point
ParseFloatOk(lit) ==
  LET signed == Len(lit) > 0 /\ CharAt(lit, 1) \in {"+", "-"}
      body   == IF signed THEN SubSeq(lit, 2, Len(lit)) ELSE lit
  IN  /\ \E i \in 1..Len(body) : IsDigit(CharAt(body, i))
      /\ \A i \in 1..Len(body) : IsDigit(CharAt(body, i)) \/ CharAt(body, i) = "."
      /\ Cardinality({i \in 1..Len(body) : CharAt(body, i) = "."}) <= 1

TwoDigits(lit, i) ==
  IF IsDigit(CharAt(lit, i)) /\ IsDigit(CharAt(lit, i + 1))
  THEN 10 * (IndexIn(DigitChars, CharAt(lit, i)) - 1) + IndexIn(DigitChars, CharAt(lit, i + 1)) - 1
  ELSE -1

\* time.Parse("2006-01-02T15:04:05Z", lit): the fixed shape, with month, day,
\* hour, minute and second in range
ParseTimeOk(lit) ==
  /\ Len(lit) = 20
  /\ \A i \in {1, 2, 3, 4} : IsDigit(CharAt(lit, i))
  /\ CharAt(lit, 5) = "-" /\ CharAt(lit, 8) = "-" /\ CharAt(lit, 11) = "T"
  /\ CharAt(lit, 14) = ":" /\ CharAt(lit, 17) = ":" /\ CharAt(lit, 20) = "Z"
  /\ TwoDigits(lit, 6) \in 1..12
  /\ TwoDigits(lit, 9) \in 1..31
  /\ TwoDigits(lit, 12) \in 0..23
  /\ TwoDigits(lit, 15) \in 0..59
  /\ TwoDigits(lit, 18) \in 0..59

\* ------------------------------------------------------------------- items

Item(typ, val) == [typ |-> typ, val |-> val, line |-> 0, pos |-> 0]

NoItem == Item("none", "")

\* the lexer stamps the n-th item it delivers with its place in the text
At(it, n) == [it EXCEPT !.line = n, !.pos = n + n]

\* the items of a whole text: its body, then end of input
Lex(body) == [i \in 1..(Len(body) + 1) |->
                IF i <= Len(body) THEN At(body[i], i) ELSE At(Item("EOF", ""), i)]

\* the process environment: the names that are set, each with the items of
\* its value's text
Env ==
  [name \in {"E", "a", "2a$h", "L", "M"} |->
     CASE name = "E" -> <<Item("Integer", "22")>>
       [] name = "a" -> <<Item("String", "env")>>
       [] name = "2a$h" -> <<Item("String", "envhash")>>
       [] name = "L" -> <<Item("Variable", "L")>>
       [] name = "M" -> <<>>]

\* the readable files beside the parsed one, each with the items of its text
Files ==
  [name \in {"f", "q", "v", "loop", "e", "i", "n", "u"} |->
     CASE name = "f" -> <<Item("Key", "x"), Item("Integer", "1"),
                          Item("Key", "a"), Item("String", "inc")>>
       [] name = "q" -> <<Item("Key", mapEndString)>>
       [] name = "v" -> <<Item("Key", "x"), Item("Variable", "b")>>
       [] name = "loop" -> <<Item("Include", "loop")>>
       [] name = "e" -> <<Item("Error", "bad")>>
       [] name = "i" -> <<Item("Key", "x"), Item("Integer", "1"),
                          Item("Key", "y"), Item("Integer", "k")>>
       [] name = "n" -> <<Item("Include", "nofile")>>
       [] name = "u" -> <<Item("Key", "x"), Item("Variable", "a"),
                          Item("Key", "y"), Item("Variable", "x")>>]

\* filepath.Join(filepath.Dir(fp), fileName): every file is in one directory
JoinDir(fp, fileName) == fileName

\* ------------------------------------------------------------------ parser

\* the parser of one parseData call, with the call's prevItem and outcome:
\* status is "running", "ok" (tree, nil), "failed" (nil, err) or "crashed"
NewParser(fp, pedantic) ==
  [pedantic |-> pedantic, fp |-> fp,
   ctxs |-> <<NewMap(fp, -1), NewMap(fp, 0)>>, keys |-> <<>>, ikeys |-> <<>>,
   mapping |-> NewMap(fp, 0), prevItem |-> NoItem,
   status |-> "running", err |-> NoErr, crash |-> ""]

\* p.ctx
Ctx(p) == p.ctxs[Len(p.ctxs)]

\* p.mapping: the map that parseData pushed, which is the second container
\* of the stack until it is popped
Mapping(p) ==
  IF Len(p.ctxs) >= 2 /\ p.ctxs[2].id = <<p.fp, 0>> THEN p.ctxs[2] ELSE p.mapping

Panic(p, msg) == [p EXCEPT !.crash = msg]

Crashed(p) == p.crash # ""

\* pushContext binding the container under its pending key when it is opened
pushContextBound(p, ctx) ==
  IF IsMap(Ctx(p)) /\ Len(p.keys) > 0
  THEN [p EXCEPT !.ctxs = Append([@ EXCEPT ![Len(@)] = MapSet(@, p.keys[Len(p.keys)], ctx)],
                                 ctx)]
  ELSE [p EXCEPT !.ctxs = Append(@, ctx)]

pushContext(p, ctx) == [p EXCEPT !.ctxs = Append(@, ctx)]

popContext(p) ==
  IF Len(p.ctxs) = 0 THEN [p |-> Panic(p, "BUG: empty context stack"), last |-> EmptyMap]
  ELSE LET last == p.ctxs[Len(p.ctxs)]
           rest == SubSeq(p.ctxs, 1, Len(p.ctxs) - 1)
       IN  IF Len(rest) = 0
           THEN [p |-> Panic(p, "index out of range"), last |-> last]
           ELSE [p |-> [p EXCEPT !.ctxs = rest,
                                 !.mapping = IF last.id = <<p.fp, 0>> THEN last ELSE @],
                 last |-> last]

pushKey(p, key) == [p EXCEPT !.keys = Append(@, key)]

pushItemKey(p, key) == [p EXCEPT !.ikeys = Append(@, key)]

\* setValue keeping the first value of a key that is stored again
setValueKeepFirst(p, val) ==
  LET ctx == Ctx(p)
      top == Len(p.ctxs)
  IN  IF IsArray(ctx)
      THEN [p EXCEPT !.ctxs[top] = [ctx EXCEPT !.a = Append(@, val)]]
      ELSE IF Len(p.keys) = 0 THEN Panic(p, "BUG: empty keys stack")
      ELSE LET key == p.keys[Len(p.keys)]
               q   == [p EXCEPT !.keys = SubSeq(@, 1, Len(@) - 1)]
               old == MapHas(ctx, key)
           IN  IF ~p.pedantic
               THEN IF old THEN q ELSE [q EXCEPT !.ctxs[top] = MapSet(ctx, key, val)]
               ELSE IF ~IsToken(val) THEN q
               ELSE IF Len(q.ikeys) = 0 THEN Panic(q, "BUG: empty item keys stack")
               ELSE LET it == q.ikeys[Len(q.ikeys)]
                        v  == [val EXCEPT !.item.pos = it.pos, !.item.line = it.line]
                    IN  [q EXCEPT !.ikeys = SubSeq(@, 1, Len(@) - 1),
                                  !.ctxs[top] = IF old THEN ctx ELSE MapSet(ctx, key, v)]

\* setValue storing a wrapper with the position of its value token
setValueKeepPosition(p, val) ==
  LET ctx == Ctx(p)
      top == Len(p.ctxs)
  IN  IF IsArray(ctx)
      THEN [p EXCEPT !.ctxs[top] = [ctx EXCEPT !.a = Append(@, val)]]
      ELSE IF Len(p.keys) = 0 THEN Panic(p, "BUG: empty keys stack")
      ELSE LET key == p.keys[Len(p.keys)]
               q   == [p EXCEPT !.keys = SubSeq(@, 1, Len(@) - 1)]
           IN  IF ~p.pedantic THEN [q EXCEPT !.ctxs[top] = MapSet(ctx, key, val)]
               ELSE IF ~IsToken(val) THEN q
               ELSE IF Len(q.ikeys) = 0 THEN Panic(q, "BUG: empty item keys stack")
               ELSE [q EXCEPT !.ikeys = SubSeq(@, 1, Len(@) - 1),
                              !.ctxs[top] = MapSet(ctx, key, val)]

setValue(p, val) ==
  LET ctx == Ctx(p)
      top == Len(p.ctxs)
  IN  IF IsArray(ctx)
      THEN [p EXCEPT !.ctxs[top] = [ctx EXCEPT !.a = Append(@, val)]]
      ELSE IF Len(p.keys) = 0 THEN Panic(p, "BUG: empty keys stack")
      ELSE LET key == p.keys[Len(p.keys)]
               q   == [p EXCEPT !.keys = SubSeq(@, 1, Len(@) - 1)]
           IN  IF ~p.pedantic THEN [q EXCEPT !.ctxs[top] = MapSet(ctx, key, val)]
               ELSE IF ~IsToken(val) THEN q
               ELSE IF Len(q.ikeys) = 0 THEN Panic(q, "BUG: empty item keys stack")
               ELSE LET it == q.ikeys[Len(q.ikeys)]
                        v  == [val EXCEPT !.item.pos = it.pos, !.item.line = it.line]
                    IN  [q EXCEPT !.ikeys = SubSeq(@, 1, Len(@) - 1),
                                  !.ctxs[top] = MapSet(ctx, key, v)]

\* the setValue closure of processItem
setItemValue(p, it, v) ==
  IF p.pedantic THEN setValue(p, Token(it, v, p.fp)) ELSE setValue(p, v)

RECURSIVE Perms(_)
\* every order in which a range loop may visit the keys S of a Go map
Perms(S) ==
  IF S = {} THEN {<<>>}
  ELSE UNION {{<<x>> \o t : t \in Perms(S \ {x})} : x \in S}

RECURSIVE SpliceNoPush(_, _, _)
\* Splice storing each value without pushing its key first
SpliceNoPush(p, m, order) ==
  IF Len(order) = 0 \/ Crashed(p) THEN p
  ELSE SpliceNoPush(setValue(p, m.m[Head(order)]), m, Tail(order))

RECURSIVE Splice(_, _, _)
\* the body of the range loop of the include case, over the keys in `order`
Splice(p, m, order) ==
  IF Len(order) = 0 \/ Crashed(p) THEN p
  ELSE LET k  == Head(order)
           v  == m.m[k]
           p1 == pushKey(p, k)
           p2 == IF p.pedantic /\ IsToken(v) THEN pushItemKey(p1, v.item) ELSE p1
       IN  Splice(setValue(p2, v), m, Tail(order))

\* ScopeOf searching from the root outwards
ScopeOfOutermost(ctxs, name, i) ==
  IF \E j \in 1..i : IsMap(ctxs[j]) /\ MapHas(ctxs[j], name)
  THEN CHOOSE j \in 1..i : /\ IsMap(ctxs[j]) /\ MapHas(ctxs[j], name)
                           /\ \A h \in 1..(j - 1) : ~(IsMap(ctxs[h]) /\ MapHas(ctxs[h], name))
  ELSE 0

\* the stack search of lookupVariable: the index of the innermost map of
\* ctxs[1..i] that has the key, 0 when there is none
RECURSIVE ScopeOf(_, _, _)
ScopeOf(ctxs, name, i) ==
  IF i = 0 THEN 0
  ELSE IF IsMap(ctxs[i]) /\ MapHas(ctxs[i], name) THEN i
  ELSE ScopeOf(ctxs, name, i - 1)

\* a resolved reference leaving the wrapper it resolved to unmarked
markUsedNever(p, at, name) == p

\* tk.usedVariable = true on the wrapper that ctxs[at] binds name to
markUsed(p, at, name) == [p EXCEPT !.ctxs[at].m[name].usedVariable = TRUE]

\* the reference site storing the wrapper of the definition itself
useSiteShared(p, it, tk) == tk

\* &token{it, tk.Value(), false, fp}: the wrapper stored at a reference site
useSite(p, it, tk) == Token(it, tk.value, p.fp)

Failed(p, err) ==
  [p EXCEPT !.status = "failed", !.err = err, !.ctxs = <<>>, !.keys = <<>>,
            !.ikeys = <<>>, !.mapping = EmptyMap, !.prevItem = NoItem]

Aborted(p, msg) ==
  [p EXCEPT !.status = "crashed", !.crash = msg, !.err = NoErr, !.ctxs = <<>>,
            !.keys = <<>>, !.ikeys = <<>>, !.mapping = EmptyMap, !.prevItem = NoItem]

RECURSIVE lookupVariable(_, _, _)
RECURSIVE parseIncludeFile(_, _, _)
RECURSIVE processItem(_, _, _)
RECURSIVE parseStep(_, _, _)
RECURSIVE Run(_, _, _)
RECURSIVE parseData(_, _, _, _)

\* Parse(data)
Parse(data, depth) == parseData(data, "", FALSE, depth)

\* a result (value, found, err) of lookupVariable; `at` is the index of the
\* context the value was found in (0: not on the stack), and crash is set
\* when the nested parse of an environment value crashed
NotFound == [value |-> VStr(""), found |-> FALSE, err |-> NoErr, at |-> 0, crash |-> ""]

\* the bcrypt special case
lookupBcrypt(varReference) ==
  {[NotFound EXCEPT !.value = VStr("$" \o varReference), !.found = TRUE]}

\* the value found in the context ctxs[i]
lookupScope(p, varReference, i) ==
  {[NotFound EXCEPT !.value = p.ctxs[i].m[varReference], !.found = TRUE, !.at = i]}

\* the value of a set environment variable, parsed as the document pk=<value>
lookupEnv(varReference, depth) ==
  {IF r.status = "crashed" THEN [NotFound EXCEPT !.crash = r.crash]
   ELSE IF r.status = "failed" THEN [NotFound EXCEPT !.err = r.err]
   ELSE IF MapHas(Mapping(r), pkey)
        THEN [NotFound EXCEPT !.value = Mapping(r).m[pkey], !.found = TRUE]
        ELSE NotFound
   : r \in Parse(Lex(<<Item("Key", pkey)>> \o Env[varReference]), depth + 1)}

\* lookupVariable asking the environment before the context stack
lookupVariableEnvFirst(p, varReference, depth) ==
  LET i == ScopeOf(p.ctxs, varReference, Len(p.ctxs))
  IN  IF HasPrefix(varReference, bcryptPrefix) THEN lookupBcrypt(varReference)
      ELSE IF varReference \in DOMAIN Env THEN lookupEnv(varReference, depth)
      ELSE IF i > 0 THEN lookupScope(p, varReference, i)
      ELSE {NotFound}

\* lookupVariable reporting an unknown name as found, with an empty value
lookupVariableNoMiss(p, varReference, depth) ==
  LET i == ScopeOf(p.ctxs, varReference, Len(p.ctxs))
  IN  IF HasPrefix(varReference, bcryptPrefix) THEN lookupBcrypt(varReference)
      ELSE IF i > 0 THEN lookupScope(p, varReference, i)
      ELSE IF varReference \in DOMAIN Env THEN lookupEnv(varReference, depth)
      ELSE {[NotFound EXCEPT !.found = TRUE]}

\* lookupVariable without the bcrypt special case
lookupVariableNoBcrypt(p, varReference, depth) ==
  LET i == ScopeOf(p.ctxs, varReference, Len(p.ctxs))
  IN  IF i > 0 THEN lookupScope(p, varReference, i)
      ELSE IF varReference \in DOMAIN Env THEN lookupEnv(varReference, depth)
      ELSE {NotFound}

lookupVariable(p, varReference, depth) ==
  LET i == ScopeOf(p.ctxs, varReference, Len(p.ctxs))
  IN  IF HasPrefix(varReference, bcryptPrefix) THEN lookupBcrypt(varReference)
      ELSE IF i > 0 THEN lookupScope(p, varReference, i)
      ELSE IF varReference \in DOMAIN Env THEN lookupEnv(varReference, depth)
      ELSE {NotFound}

\* parseIncludeFile returning an empty map when the file cannot be parsed
parseIncludeFileLenient(p, fileName, depth) ==
  LET path == JoinDir(p.fp, fileName)
      done == [NewParser(path, p.pedantic) EXCEPT !.status = "ok"]
  IN  IF path \notin DOMAIN Files THEN {done}
      ELSE {IF r.status = "failed" THEN done ELSE r
            : r \in parseData(Lex(Files[path]), path, p.pedantic, depth + 1)}

\* parseIncludeFile parsing the file with the top-level map of the including
\* document at the bottom of its context stack
parseIncludeFileShared(p, fileName, depth) ==
  LET path == JoinDir(p.fp, fileName)
  IN  IF path \notin DOMAIN Files
      THEN {Failed(NewParser(path, p.pedantic), [kind |-> "ReadFile", file |-> path])}
      ELSE IF depth + 1 > MaxDepth
      THEN {Aborted(NewParser(path, p.pedantic), "stack overflow")}
      ELSE Run([NewParser(path, p.pedantic) EXCEPT !.ctxs[1] = Mapping(p)],
               Lex(Files[path]), depth + 1)

\* ParseFile / ParseFileWithChecks on the joined path
parseIncludeFile(p, fileName, depth) ==
  LET path == JoinDir(p.fp, fileName)
  IN  IF path \notin DOMAIN Files
      THEN {Failed(NewParser(path, p.pedantic), [kind |-> "ReadFile", file |-> path])}
      ELSE parseData(Lex(Files[path]), path, p.pedantic, depth + 1)

processItem(p, it, depth) ==
  CASE it.typ = "Error" ->
         {[p EXCEPT !.err = [kind |-> "ParseError", line |-> it.line, val |-> it.val]]}
    [] it.typ = "Key" ->
         {IF p.pedantic THEN pushItemKey(pushKey(p, it.val), it) ELSE pushKey(p, it.val)}
    [] it.typ = "MapStart" -> {pushContext(p, NewMap(p.fp, it.line))}
    [] it.typ \in {"MapEnd", "ArrayEnd"} ->
         LET r == popContext(p)
         IN  {IF Crashed(r.p) THEN r.p ELSE setItemValue(r.p, it, r.last)}
    [] it.typ = "String" -> {setItemValue(p, it, VStr(it.val))}
    [] it.typ = "Integer" ->
         LET r == parseInteger(it.val)
         IN  {IF r.err # NoErr THEN [p EXCEPT !.err = r.err] ELSE setItemValue(p, it, r.v)}
    [] it.typ = "Float" ->
         {IF ~ParseFloatOk(it.val) THEN [p EXCEPT !.err = [kind |-> "InvalidFloat", val |-> it.val]]
          ELSE setItemValue(p, it, VFloat(it.val))}
    [] it.typ = "Bool" -> {setItemValue(p, it, VBool(parseBool(it.val)))}
    [] it.typ = "Datetime" ->
         {IF ~ParseTimeOk(it.val) THEN [p EXCEPT !.err = [kind |-> "InvalidDateTime", val |-> it.val]]
          ELSE setItemValue(p, it, VTime(it.val))}
    [] it.typ = "ArrayStart" -> {pushContext(p, NewArray(p.fp, it.line))}
    [] it.typ = "Variable" ->
         {IF r.crash # "" THEN Panic(p, r.crash)
          ELSE IF r.err # NoErr
          THEN [p EXCEPT !.err = [kind |-> "VariableParse", val |-> it.val,
                                  line |-> it.line, cause |-> r.err]]
          ELSE IF ~r.found
          THEN [p EXCEPT !.err = [kind |-> "VariableNotFound", val |-> it.val,
                                  line |-> it.line]]
          ELSE IF ~p.pedantic THEN setValue(p, r.value)
          ELSE IF IsToken(r.value)
          THEN setValue(markUsed(p, r.at, it.val), useSite(p, it, r.value))
          ELSE setValue(p, Token(it, r.value, p.fp))
          : r \in lookupVariable(p, it.val, depth)}
    [] it.typ = "Include" ->
         UNION {IF r.status = "crashed" THEN {Panic(p, r.crash)}
                ELSE IF r.status = "failed"
                THEN {[p EXCEPT !.err = [kind |-> "Include", file |-> it.val,
                                         cause |-> r.err]]}
                ELSE {Splice(p, Mapping(r), order) : order \in Perms(DOMAIN Mapping(r).m)}
                : r \in parseIncludeFile(p, it.val, depth)}
    [] OTHER -> {p}

\* parseStep failing on every key that ends the input, "}" included
parseStepNoBrace(p, it, depth) ==
  IF it.typ = "EOF" /\ p.prevItem.typ = "Key"
  THEN {Failed(p, [kind |-> "ConfigInvalid", line |-> it.line, pos |-> it.pos])}
  ELSE {IF Crashed(q) THEN Aborted(q, q.crash)
        ELSE IF q.err # NoErr THEN Failed(q, q.err)
        ELSE IF it.typ = "EOF" THEN [q EXCEPT !.status = "ok"]
        ELSE q
        : q \in processItem([p EXCEPT !.prevItem = it], it, depth)}

\* one turn of the loop of parseData on the item `it` that p.next() returned
parseStep(p, it, depth) ==
  IF it.typ = "EOF" /\ p.prevItem.typ = "Key" /\ p.prevItem.val # mapEndString
  THEN {Failed(p, [kind |-> "ConfigInvalid", line |-> it.line, pos |-> it.pos])}
  ELSE {IF Crashed(q) THEN Aborted(q, q.crash)
        ELSE IF q.err # NoErr THEN Failed(q, q.err)
        ELSE IF it.typ = "EOF" THEN [q EXCEPT !.status = "ok"]
        ELSE q
        : q \in processItem([p EXCEPT !.prevItem = it], it, depth)}

\* the loop of parseData over the items the lexer delivers
Run(p, items, depth) ==
  IF p.status # "running" \/ Len(items) = 0 THEN {p}
  ELSE UNION {Run(q, Tail(items), depth) : q \in parseStep(p, Head(items), depth)}

\* a parse nested deeper than MaxDepth exhausts the call stack
parseData(data, fp, pedantic, depth) ==
  IF depth > MaxDepth THEN {Aborted(NewParser(fp, pedantic), "stack overflow")}
  ELSE Run(NewParser(fp, pedantic), data, depth)

Nil == [k |-> "nil"]

\* what Parse / ParseWithChecks return once parseData has returned
Result(p) ==
  [tree |-> IF p.status = "ok" THEN Mapping(p) ELSE Nil,
   err  |-> IF p.status = "failed" THEN p.err ELSE NoErr]

\* ------------------------------------------------------------------ inputs

KeyNames == {"a", "b", mapEndString, "2a$h"}

VariableNames == {"a", "b", "2a$h", "E", "L", "M"}

IncludeNames == {"f", "q", "v", "loop", "nofile", "u"}

\* the items a lexer may deliver, in any order
Alphabet ==
  {Item("Key", k) : k \in KeyNames}
  \cup {Item(t, "") : t \in {"MapStart", "MapEnd", "ArrayStart", "ArrayEnd", "EOF"}}
  \cup {Item("String", "s"), Item("Bool", "true"), Item("Error", "bad")}
  \cup {Item("Integer", l) : l \in {"2k", "k"}}
  \cup {Item("Float", l) : l \in {"2.2", "2.2.2"}}
  \cup {Item("Datetime", l) : l \in {"2016-05-04T18:53:41Z", "2016-13-04T18:53:41Z"}}
  \cup {Item("Variable", v) : v \in VariableNames}
  \cup {Item("Include", f) : f \in IncludeNames}

\* the beginnings of the parsed texts; after one of them the lexer delivers
\* up to MaxItems further items of the alphabet
Scripts ==
  { <<>>,
    <<Item("Key", "a"), Item("Integer", "1"), Item("Key", "b"), Item("MapStart", ""),
      Item("Key", "a"), Item("String", "s")>>,
    <<Item("Key", "a"), Item("Integer", "1"), Item("Key", "b"), Item("ArrayStart", "")>>,
    <<Item("Key", "2a$h"), Item("String", "h"), Item("Key", "b"), Item("MapStart", "")>>,
    <<Item("Key", "a"), Item("Integer", "1"), Item("Include", "e")>>,
    <<Item("Key", "a"), Item("Integer", "1"), Item("Key", "b"), Item("MapStart", ""),
      Item("Include", "i")>>,
    <<Item("Key", "b"), Item("ArrayStart", ""), Item("Include", "n")>>,
    <<Item("Key", "a"), Item("MapStart", ""), Item("Key", "b"), Item("Integer", "1"),
      Item("MapEnd", ""), Item("Key", "b")>> }

NumPrefixes ==
  {"", "0", "1", "8", "10", "+3", "-1", "-3", "-", "1_0", "1a2",
   "9223372036854775", "9223372036854776",
   "9223372036854775807", "9223372036854775808",
   "-9223372036854775808", "-9223372036854775809"}

NumSuffixes ==
  {"", "k", "m", "g", "t", "p", "e",
   "kb", "ki", "kib", "mb", "mi", "mib", "gb", "gi", "gib",
   "tb", "ti", "tib", "pb", "pi", "pib", "eb", "ei", "eib",
   "K", "Mb", "GiB", "tIb", "E", "x", "b", "kk", "kbs"}

Literals == {pre \o suf : pre \in NumPrefixes, suf \in NumSuffixes}

\* ----------------------------------------------------------- state machine

VARIABLES
  lx,      \* the scripted items the lexer has still to deliver
  n,       \* the number of items delivered so far
  free,    \* the number of items delivered after the script
  cur,     \* the item delivered last
  plain,   \* the parser of Parse(data)
  ped,     \* the parser of ParseWithChecks(data) on the same data
  lit,     \* an integer literal handed to parseInteger
  dec      \* what parseInteger returned for it

vars == <<lx, n, free, cur, plain, ped, lit, dec>>

NoDec == [done |-> FALSE, err |-> NoErr, v |-> VInt(Zero(Limbs64))]

Init ==
  /\ lx \in Scripts
  /\ n = 0
  /\ free = 0
  /\ cur = NoItem
  /\ plain = NewParser("", FALSE)
  /\ ped = NewParser("", TRUE)
  /\ lit = ""
  /\ dec = NoDec

\* the next turn of the loop of a parseData call that has not returned
StepOf(p, item) == IF p.status = "running" THEN parseStep(p, item, 0) ELSE {p}

\* both parse calls pull the next item of the same text
Deliver(it) ==
  LET item == At(it, n + 1)
  IN  /\ plain.status = "running" \/ ped.status = "running"
      /\ n' = n + 1
      /\ cur' = item
      /\ plain' \in StepOf(plain, item)
      /\ ped' \in StepOf(ped, item)
      /\ UNCHANGED <<lit, dec>>

Scripted ==
  /\ Len(lx) > 0
  /\ Deliver(Head(lx))
  /\ lx' = Tail(lx)
  /\ free' = free

Unscripted ==
  /\ Len(lx) = 0
  /\ free < MaxItems
  /\ \E it \in Alphabet : Deliver(it)
  /\ free' = free + 1
  /\ lx' = lx

Next == Scripted \/ Unscripted

Spec == Init /\ [][Next]_vars

\* the integer decoder alone, on one literal
InitNum ==
  /\ lx = <<>>
  /\ n = 0
  /\ free = 0
  /\ cur = NoItem
  /\ plain = NewParser("", FALSE)
  /\ ped = NewParser("", TRUE)
  /\ lit \in Literals
  /\ dec = NoDec

Decode ==
  /\ ~dec.done
  /\ dec' = [done |-> TRUE, err |-> parseInteger(lit).err, v |-> parseInteger(lit).v]
  /\ UNCHANGED <<lx, n, free, cur, plain, ped, lit>>

NextNum == Decode

SpecNum == InitNum /\ [][NextNum]_vars

\* ------------------------------------------------------------- properties

RECURSIVE Strip(_)
\* a pedantic tree with every wrapper replaced by its wrapped value
Strip(v) ==
  IF IsToken(v) THEN Strip(v.value)
  ELSE IF IsMap(v) THEN [v EXCEPT !.m = [x \in DOMAIN v.m |-> Strip(v.m[x])]]
  ELSE IF IsArray(v) THEN [v EXCEPT !.a = [i \in 1..Len(v.a) |-> Strip(v.a[i])]]
  ELSE v

\* C1: whenever the plain parse has returned a tree, the pedantic parse of
\* the same input has returned one too, and with its wrappers stripped it
\* is the plain tree.
C1_PedanticEquivalent ==
  plain.status = "ok" =>
    /\ ped.status = "ok"
    /\ Strip(Mapping(ped)) = Mapping(plain)

\* the wrapped value of a pedantic wrapper, the value itself otherwise
Unwrap(v) == IF IsToken(v) THEN v.value ELSE v

\* a store by p does not hit an empty key stack
CanStore(p) == IsArray(Ctx(p)) \/ Len(p.keys) > 0

\* the value a step from p to q stored into the current context of p
Stored(p, q) ==
  IF IsArray(Ctx(p)) THEN Ctx(q).a[Len(Ctx(q).a)]
  ELSE Ctx(q).m[p.keys[Len(p.keys)]]

Binds(c, name) == IsMap(c) /\ MapHas(c, name)

IsReference(it) == it.typ = "Variable" /\ ~HasPrefix(it.val, "2a$")

\* every result of the lookup of name by p is the value v, found without error
Resolves(p, name, v) ==
  \A r \in lookupVariable(p, name, 0) :
    r.found /\ r.err = NoErr /\ r.crash = "" /\ Unwrap(r.value) = v

ResolvesInnermost(p, q, it) ==
  ( /\ IsReference(it)
    /\ p.status = "running"
    /\ \E i \in 1..Len(p.ctxs) : Binds(p.ctxs[i], it.val) )
  => \E i \in 1..Len(p.ctxs) :
       /\ Binds(p.ctxs[i], it.val)
       /\ \A j \in (i + 1)..Len(p.ctxs) : ~Binds(p.ctxs[j], it.val)
       /\ Resolves(p, it.val, Unwrap(p.ctxs[i].m[it.val]))
       /\ CanStore(p) => /\ q.status = "running"
                         /\ Unwrap(Stored(p, q)) = Unwrap(p.ctxs[i].m[it.val])

\* C2: a reference whose name does not start with 2a$ and that some map of
\* the context stack binds resolves to the value that the innermost such map
\* binds it to when the reference is processed, arrays on the stack being
\* skipped, and that value is what the reference is stored as, in the plain
\* and in the pedantic parse.
C2_InnermostScope ==
  [][ResolvesInnermost(plain, plain', cur') /\ ResolvesInnermost(ped, ped', cur')]_vars

\* C2 witness: two maps of the stack bind "a" differently, and the reference
\* $a has just been stored with the inner binding.
C2_Witness ==
  /\ cur.typ = "Variable" /\ cur.val = "a"
  /\ plain.status = "running" /\ Len(plain.ctxs) = 3
  /\ Binds(plain.ctxs[2], "a") /\ Binds(plain.ctxs[3], "a") /\ Binds(plain.ctxs[3], "b")
  /\ plain.ctxs[2].m["a"] # plain.ctxs[3].m["a"]
  /\ plain.ctxs[3].m["b"] = plain.ctxs[3].m["a"]

\* the typed value of the text of an environment variable
EnvTyped(name) ==
  CASE name = "E" -> VInt(<<22, 0, 0, 0>>)
    [] name = "a" -> VStr("env")

ScopeThenEnvironment(p, q, it) ==
  ( /\ IsReference(it)
    /\ p.status = "running" )
  => /\ (\E i \in 1..Len(p.ctxs) : Binds(p.ctxs[i], it.val))
          => \E i \in 1..Len(p.ctxs) :
               /\ Binds(p.ctxs[i], it.val)
               /\ \A r \in lookupVariable(p, it.val, 0) : r.at > 0
               /\ Resolves(p, it.val, Unwrap(p.ctxs[i].m[it.val]))
               /\ CanStore(p) => /\ q.status = "running"
                                 /\ Unwrap(Stored(p, q)) = Unwrap(p.ctxs[i].m[it.val])
     /\ ( /\ \A i \in 1..Len(p.ctxs) : ~Binds(p.ctxs[i], it.val)
          /\ it.val \in {"E", "a"} )
          => /\ \A r \in lookupVariable(p, it.val, 0) : r.at = 0
             /\ Resolves(p, it.val, EnvTyped(it.val))
             /\ CanStore(p) => /\ q.status = "running"
                               /\ Unwrap(Stored(p, q)) = EnvTyped(it.val)

\* C3: a reference that a map of the context stack binds resolves to a
\* binding of the stack even when an environment variable of the same name
\* is set; a reference that no map binds and the environment supplies
\* resolves to, and is stored as, the typed value of the environment text
\* (22 as the integer 22), in the plain and in the pedantic parse.
C3_ScopeBeforeEnvironment ==
  [][ScopeThenEnvironment(plain, plain', cur') /\ ScopeThenEnvironment(ped, ped', cur')]_vars

\* C3 witness: $E, bound by no map, has just been stored as the integer 22
\* by both parses.
C3_Witness ==
  /\ cur.typ = "Variable" /\ cur.val = "E"
  /\ plain.status = "running" /\ ped.status = "running"
  /\ \A i \in 1..Len(plain.ctxs) : ~Binds(plain.ctxs[i], "E")
  /\ Binds(Ctx(plain), "b") /\ Ctx(plain).m["b"] = VInt(<<22, 0, 0, 0>>)
  /\ Binds(Ctx(ped), "b") /\ Ctx(ped).m["b"].value = VInt(<<22, 0, 0, 0>>)

MissingFails(p, q, it) ==
  /\ ( /\ IsReference(it)
       /\ p.status = "running"
       /\ \A i \in 1..Len(p.ctxs) : ~Binds(p.ctxs[i], it.val)
       /\ it.val \notin DOMAIN Env )
     => /\ q.status = "failed"
        /\ Result(q).tree = Nil
        /\ Result(q).err = [kind |-> "VariableNotFound", val |-> it.val, line |-> it.line]
  /\ p.status = "failed" => q = p

\* C4: a reference whose name does not start with 2a$, that no map of the
\* context stack binds and that is not set in the environment makes the
\* parse return no tree and an error naming the reference and its line; a
\* parse that has failed processes nothing more.
C4_MissingVariableFails ==
  [][MissingFails(plain, plain', cur') /\ MissingFails(ped, ped', cur')]_vars

\* C4 witness: both parses have failed on the unbound, unset reference $b.
C4_Witness ==
  /\ cur.typ = "Variable" /\ cur.val = "b"
  /\ Result(plain) = [tree |-> Nil,
                      err |-> [kind |-> "VariableNotFound", val |-> "b", line |-> cur.line]]
  /\ Result(ped) = Result(plain)

BcryptLiteral(p, q, it) ==
  ( /\ it.typ = "Variable"
    /\ HasPrefix(it.val, "2a$")
    /\ p.status = "running" )
  => /\ Resolves(p, it.val, VStr("$" \o it.val))
     /\ q.status # "failed"
     /\ CanStore(p) => /\ q.status = "running"
                       /\ Unwrap(Stored(p, q)) = VStr("$" \o it.val)

\* C5: a reference whose name begins with 2a$ is stored as the string made
\* of $ and the name, whatever the maps of the stack bind and whatever the
\* environment holds, and its lookup does not fail.
C5_BcryptLiteral ==
  [][BcryptLiteral(plain, plain', cur') /\ BcryptLiteral(ped, ped', cur')]_vars

\* C5 witness: the root map binds the key 2a$h, the environment sets 2a$h,
\* and the reference $2a$h has just been stored as the string "$2a$h".
C5_Witness ==
  /\ cur.typ = "Variable" /\ cur.val = "2a$h"
  /\ "2a$h" \in DOMAIN Env
  /\ plain.status = "running" /\ Len(plain.ctxs) = 3
  /\ Binds(plain.ctxs[2], "2a$h")
  /\ Binds(plain.ctxs[3], "a") /\ plain.ctxs[3].m["a"] = VStr("$2a$h")
  /\ ped.status = "running" /\ Len(ped.ctxs) = 3
  /\ Binds(ped.ctxs[3], "a") /\ ped.ctxs[3].m["a"].value = VStr("$2a$h")

\* the top-level entries of the documents that include files hold
IncludedEntries(file) ==
  CASE file = "f" -> [x \in {"x", "a"} |->
                        IF x = "x" THEN VInt(<<1, 0, 0, 0>>) ELSE VStr("inc")]
    [] file = "q" -> <<>>

IncludeSplices(p, q, it) ==
  ( /\ it.typ = "Include"
    /\ it.val \in {"f", "q"}
    /\ p.status = "running"
    /\ IsMap(Ctx(p)) )
  => LET inc == IncludedEntries(it.val)
         old == Ctx(p).m
         new == Ctx(q).m
     IN  /\ q.status = "running"
         /\ Len(q.ctxs) = Len(p.ctxs)
         /\ IsMap(Ctx(q))
         /\ DOMAIN new = DOMAIN old \cup DOMAIN inc
         /\ \A k \in DOMAIN inc : Strip(new[k]) = inc[k]
         /\ \A k \in DOMAIN old \ DOMAIN inc : new[k] = old[k]
         /\ q.keys = p.keys

\* C6: an include directive processed while the current context is a map
\* leaves that map with every top-level key of the included document bound
\* to the included value (an earlier entry of the same key is replaced), with
\* no other new key, with its other entries unchanged, and leaves the stack
\* of pending keys as it was.
C6_IncludeSplices ==
  [][IncludeSplices(plain, plain', cur') /\ IncludeSplices(ped, ped', cur')]_vars

\* C6 witness: the open map bound a to "s"; include f has just replaced that
\* entry and added x, and the key b of the open map is still pending.
C6_Witness ==
  /\ cur.typ = "Include" /\ cur.val = "f" /\ n = 7
  /\ plain.status = "running" /\ Len(plain.ctxs) = 3 /\ IsMap(plain.ctxs[3])
  /\ plain.ctxs[3].m = IncludedEntries("f")
  /\ plain.keys = <<"b">>
  /\ ped.status = "running" /\ Len(ped.ctxs) = 3
  /\ Strip(ped.ctxs[3]) = plain.ctxs[3]

\* the value that a literal item decodes to
Decoded(it) ==
  CASE it.typ = "String" -> VStr(it.val)
    [] it.typ = "Bool" /\ it.val = "true" -> VBool(TRUE)
    [] it.typ = "Integer" /\ it.val = "2k" -> VInt(<<2000, 0, 0, 0>>)
    [] it.typ = "Integer" /\ it.val = "1" -> VInt(<<1, 0, 0, 0>>)
    [] it.typ = "Float" /\ it.val = "2.2" -> VFloat("2.2")
    [] it.typ = "Datetime" /\ it.val = "2016-05-04T18:53:41Z" -> VTime(it.val)
    [] OTHER -> Nil

StoresOnce(p, q, it) ==
  ( /\ Decoded(it) # Nil
    /\ p.status = "running"
    /\ CanStore(p) )
  => /\ q.status = "running"
     /\ Len(q.ctxs) = Len(p.ctxs)
     /\ \A i \in 1..(Len(p.ctxs) - 1) : q.ctxs[i] = p.ctxs[i]
     /\ IF IsMap(Ctx(p))
        THEN LET key == p.keys[Len(p.keys)]
                 old == Ctx(p).m
                 new == Ctx(q).m
             IN  /\ q.keys = SubSeq(p.keys, 1, Len(p.keys) - 1)
                 /\ DOMAIN new = DOMAIN old \cup {key}
                 /\ Unwrap(new[key]) = Decoded(it)
                 /\ \A k \in DOMAIN old \ {key} : new[k] = old[k]
        ELSE /\ q.keys = p.keys
             /\ Len(Ctx(q).a) = Len(Ctx(p).a) + 1
             /\ SubSeq(Ctx(q).a, 1, Len(Ctx(p).a)) = Ctx(p).a
             /\ Unwrap(Ctx(q).a[Len(Ctx(q).a)]) = Decoded(it)

\* C7: storing a literal while the current context is a map and a key is
\* pending pops that one key and binds it to the value, replacing without
\* error whatever the key was bound to before and leaving every other entry
\* alone; while the current context is an array it appends the value at the
\* end and leaves the pending keys alone; in the plain and the pedantic parse.
C7_StoreRule ==
  [][StoresOnce(plain, plain', cur') /\ StoresOnce(ped, ped', cur')]_vars

\* C7 witness: the open map bound a to "s" and the key a was stored again,
\* with true: the map now binds a to true in both parses.
C7_Witness ==
  /\ cur.typ = "Bool" /\ n = 8
  /\ plain.status = "running" /\ Len(plain.ctxs) = 3 /\ IsMap(plain.ctxs[3])
  /\ plain.ctxs[3].m = [x \in {"a"} |-> VBool(TRUE)]
  /\ plain.ctxs[2].m = [x \in {"a"} |-> VInt(<<1, 0, 0, 0>>)]
  /\ ped.status = "running" /\ Len(ped.ctxs) = 3
  /\ Strip(ped.ctxs[3]) = plain.ctxs[3]

ConfigInvalid(it) == [kind |-> "ConfigInvalid", line |-> it.line, pos |-> it.pos]

EndOfInputStrict(p, q, prev, it) ==
  ( /\ it.typ = "EOF"
    /\ p.status = "running" )
  => IF Len(p.keys) > 0 \/ prev.typ = "Key"
     THEN Result(q) = [tree |-> Nil, err |-> ConfigInvalid(it)]
     ELSE /\ q.status = "ok"
          /\ Len(q.keys) = 0
          /\ Len(q.ctxs) = 2
          /\ Result(q).tree = q.ctxs[2]

\* C8 as claimed: at end of input the parse fails when a key is pending or
\* the last item was a key, and otherwise returns the one remaining root
\* container, so that no returned parse has a pending key or an open
\* container above the root.
C8_EndOfInputStrict ==
  [][EndOfInputStrict(plain, plain', cur, cur') /\ EndOfInputStrict(ped, ped', cur, cur')]_vars

EndOfInput(p, q, prev, it) ==
  ( /\ it.typ = "EOF"
    /\ p.status = "running" )
  => IF prev.typ = "Key" /\ prev.val # "}"
     THEN Result(q) = [tree |-> Nil, err |-> ConfigInvalid(it)]
     ELSE /\ q.status = "ok"
          /\ Result(q) = [tree |-> Mapping(p), err |-> NoErr]
          /\ q.keys = p.keys
          /\ q.ctxs = p.ctxs

\* C8 as amended: at end of input the parse fails with a malformed-config
\* error exactly when the item before it was a key other than "}"; otherwise
\* it returns the root map as built so far, whatever keys are still pending
\* and whatever containers are still open.
C8_EndOfInput ==
  [][EndOfInput(plain, plain', cur, cur') /\ EndOfInput(ped, ped', cur, cur')]_vars

\* C8 witness: the text of the single key "}" has been parsed to the empty
\* map, the key still pending.
C8_Witness ==
  /\ cur.typ = "EOF" /\ n = 2
  /\ Result(plain) = [tree |-> NewMap("", 0), err |-> NoErr]
  /\ plain.keys = <<"}">>
  /\ Result(ped) = Result(plain)

Outcome(p) ==
  \/ p.status = "running"
  \/ p.status = "ok" /\ Result(p).tree # Nil /\ Result(p).err = NoErr
  \/ p.status = "failed" /\ Result(p).tree = Nil /\ Result(p).err # NoErr

\* C9 as claimed: a parse call that has ended has returned either a tree and
\* no error or an error and no tree; it never ends any other way, such as a
\* crash.
C9_TwoOutcomes == Outcome(plain) /\ Outcome(ped)

\* the multiplier the suffix table gives a suffix, as <<factor, exponent>>
TableScale(suf) ==
  LET i == CHOOSE j \in 1..6 :
             suf \in { <<"k", "m", "g", "t", "p", "e">>[j],
                       <<"kb", "mb", "gb", "tb", "pb", "eb">>[j],
                       <<"ki", "mi", "gi", "ti", "pi", "ei">>[j],
                       <<"kib", "mib", "gib", "tib", "pib", "eib">>[j] }
  IN  <<IF Len(suf) = 1 THEN 1000 ELSE 1024, i>>

TableSuffixes ==
  {"k", "m", "g", "t", "p", "e", "kb", "ki", "kib", "mb", "mi", "mib",
   "gb", "gi", "gib", "tb", "ti", "tib", "pb", "pi", "pib", "eb", "ei", "eib"}

\* C10 as claimed: the literal of a valid int64 n and a suffix of the table
\* with multiplier m decodes, without error, to the mathematical product n*m.
C10_ExactProduct ==
  \A pre \in NumPrefixes, suf \in TableSuffixes :
    (dec.done /\ lit = pre \o suf /\ ParseInt(pre).ok)
      => /\ dec.err = NoErr
         /\ SignExtend(dec.v.n, Limbs128) = ExactProduct(ParseInt(pre).n, TableScale(suf))

\* why the parse of an include file that cannot be parsed fails
IncludeFailure(file) ==
  CASE file = "nofile" -> [kind |-> "ReadFile", file |-> "nofile"]
    [] file = "e" -> [kind |-> "ParseError", line |-> 1, val |-> "bad"]
    [] file = "i" -> [kind |-> "InvalidInteger", val |-> "k"]
    [] file = "v" -> [kind |-> "VariableNotFound", val |-> "b", line |-> 2]
    [] file = "n" -> [kind |-> "Include", file |-> "nofile",
                      cause |-> [kind |-> "ReadFile", file |-> "nofile"]]

IncludeFails(p, q, it) ==
  ( /\ it.typ = "Include"
    /\ it.val \in {"nofile", "e", "i", "v", "n"}
    /\ p.status = "running" )
  => /\ q.status = "failed"
     /\ Result(q) = [tree |-> Nil,
                     err |-> [kind |-> "Include", file |-> it.val,
                              cause |-> IncludeFailure(it.val)]]

\* C11: an include directive whose file cannot be read, holds a lexer error,
\* a bad literal (after a good entry), an unresolved reference or a failing
\* include of its own makes the including parse fail with an error that
\* names the include file and carries the cause; no tree is returned, so
\* nothing of the included document is stored.
C11_IncludeFailureFails ==
  [][IncludeFails(plain, plain', cur') /\ IncludeFails(ped, ped', cur')]_vars

\* C11 witness: the include of i, whose second entry is a bad literal, has
\* failed both parses inside the open map b.
C11_Witness ==
  /\ cur.typ = "Include" /\ cur.val = "i" /\ n = 5
  /\ Result(plain) = [tree |-> Nil,
                      err |-> [kind |-> "Include", file |-> "i",
                               cause |-> IncludeFailure("i")]]
  /\ Result(ped) = Result(plain)

\* the parser as it is when the value of the item is stored: a closing item
\* has popped the container that it stores
Storing(p, it) ==
  IF it.typ \in {"MapEnd", "ArrayEnd"} THEN popContext(p).p ELSE p

\* the index of the innermost map of the stack of p that binds name, or 0
Innermost(p, name) ==
  IF \E i \in 1..Len(p.ctxs) : Binds(p.ctxs[i], name)
  THEN CHOOSE i \in 1..Len(p.ctxs) :
         /\ Binds(p.ctxs[i], name)
         /\ \A j \in (i + 1)..Len(p.ctxs) : ~Binds(p.ctxs[j], name)
  ELSE 0

\* the entries of the included document of a file, with the flags its
\* wrappers have when its parse returns: only x of u was referenced there
IncludedFlags(file) ==
  CASE file = "f" -> [x \in {"x", "a"} |-> FALSE]
    [] file = "q" -> <<>>
    [] file = "u" -> [x \in {"x", "y"} |-> x = "x"]

UsedFlags(p, q, it) ==
  LET s     == Storing(p, it)
      top   == Len(s.ctxs)
      one   == it.typ \in {"String", "Integer", "Float", "Bool", "Datetime",
                           "Variable", "MapEnd", "ArrayEnd"}
      inc   == it.typ = "Include" /\ it.val \in {"f", "q", "u"}
      hit   == IF IsReference(it) THEN Innermost(p, it.val) ELSE 0
      wrote == IF ~IsMap(Ctx(s)) THEN {}
               ELSE IF one THEN {s.keys[Len(s.keys)]}
               ELSE IF inc THEN DOMAIN IncludedFlags(it.val)
               ELSE {}
  IN  ( /\ p.pedantic /\ p.status = "running" /\ q.status = "running"
        /\ one \/ inc \/ it.typ \in {"Key", "MapStart", "ArrayStart"} )
      => /\ Len(q.ctxs) >= top
         \* a wrapper made by this step is stored with the flag false
         /\ one => ~Stored(s, q).usedVariable
         \* a spliced wrapper comes with the flag the included parse left
         /\ (inc /\ IsMap(Ctx(s))) =>
              \A k \in wrote : q.ctxs[top].m[k].usedVariable = IncludedFlags(it.val)[k]
         \* every other wrapper is as it was, but for the one resolved to
         /\ \A i \in 1..top :
              IF IsMap(s.ctxs[i])
              THEN \A k \in DOMAIN s.ctxs[i].m \ (IF i = top THEN wrote ELSE {}) :
                     q.ctxs[i].m[k] =
                       IF i = hit /\ k = it.val
                       THEN [s.ctxs[i].m[k] EXCEPT !.usedVariable = TRUE]
                       ELSE s.ctxs[i].m[k]
              ELSE SubSeq(q.ctxs[i].a, 1, Len(s.ctxs[i].a)) = s.ctxs[i].a

\* C12: in a pedantic parse a step changes the usedVariable flag of exactly
\* one wrapper, from false or true to true: the wrapper that the reference
\* it processes resolves to (the innermost binding; a shadowed binding, and
\* every binding when the item is no reference, keeps its flag). Every
\* wrapper a step creates, the one stored at a reference site included, is
\* stored with the flag false, and a spliced wrapper has the flag that the
\* parse of the included file left on it.
C12_UsedVariableFlag == [][UsedFlags(ped, ped', cur')]_vars

\* C12 witness: $a was processed inside the map b, which binds a as the root
\* does: the inner binding is marked, the shadowed one and the new wrapper
\* stored under b are not.
C12_Witness ==
  /\ cur.typ = "Variable" /\ cur.val = "a" /\ n = 8
  /\ ped.status = "running" /\ Len(ped.ctxs) = 3
  /\ Binds(ped.ctxs[2], "a") /\ Binds(ped.ctxs[3], "a") /\ Binds(ped.ctxs[3], "b")
  /\ ped.ctxs[3].m["a"].usedVariable
  /\ ~ped.ctxs[2].m["a"].usedVariable
  /\ ~ped.ctxs[3].m["b"].usedVariable

NoIncludeReturns(p, q, it) ==
  (p.status = "running" /\ it.typ # "Include") => q.crash # "stack overflow"

\* C13 as claimed: the processing of an item that is no include directive
\* returns, whatever the environment holds; it never recurses until the call
\* stack is exhausted, so a text without include directives is parsed in as
\* many steps as it has items.
C13_NoIncludeTerminates ==
  [][NoIncludeReturns(plain, plain', cur') /\ NoIncludeReturns(ped, ped', cur')]_vars

\* the ways the text may end after an item: at once, or after one closing
\* bracket
Closings == {<<>>, <<Item("ArrayEnd", "")>>, <<Item("MapEnd", "")>>}

\* the items of an ending, delivered after the k-th item of the text
Ending(e, k) ==
  [i \in 1..(Len(e) + 1) |->
     IF i <= Len(e) THEN At(e[i], k + i) ELSE At(Item("EOF", ""), k + i)]

\* every way the call of p may end when the text ends with e
Outcomes(p, e, k) == {<<r.status, Result(r)>> : r \in Run(p, Ending(e, k), 0)}

SameOutcomes(p, q, it, k) ==
  p.status = "running" =>
    \A e \in Closings : \A r \in StepOf(p, it) : Outcomes(r, e, k) = Outcomes(q, e, k)

\* C14 as claimed: whatever a call has parsed so far, and however the text
\* ends after the next item, the call has one outcome: a second call that
\* parses the same text, and so processes the same item from the same state,
\* ends with the same tree or the same failure, in whatever order it
\* iterates over an included document.
C14_Deterministic ==
  [][SameOutcomes(plain, plain', cur', n') /\ SameOutcomes(ped, ped', cur', n')]_vars

RECURSIVE Paths(_, _)
RECURSIVE PathsIn(_, _, _)
\* the number of paths from the value v down to the container `id`
Paths(v, id) ==
  IF IsToken(v) THEN Paths(v.value, id)
  ELSE IF IsMap(v)
  THEN (IF v.id = id THEN 1 ELSE 0) + PathsIn(v.m, DOMAIN v.m, id)
  ELSE IF IsArray(v)
  THEN (IF v.id = id THEN 1 ELSE 0) + PathsIn(v.a, DOMAIN v.a, id)
  ELSE 0

\* the same, summed over the children f[x], x in S, of a container
PathsIn(f, S, id) ==
  IF S = {} THEN 0
  ELSE LET x == CHOOSE y \in S : TRUE
       IN  Paths(f[x], id) + PathsIn(f, S \ {x}, id)

RECURSIVE Containers(_)
\* the containers the value v holds, itself included
Containers(v) ==
  IF IsToken(v) THEN Containers(v.value)
  ELSE IF IsMap(v) THEN {v.id} \cup UNION {Containers(v.m[x]) : x \in DOMAIN v.m}
  ELSE IF IsArray(v) THEN {v.id} \cup UNION {Containers(v.a[i]) : i \in DOMAIN v.a}
  ELSE {}

\* every container of the tree v has one parent: none is reached twice
Owned(v) == \A id \in Containers(v) : Paths(v, id) = 1

\* C15 as claimed: in the tree that a plain parse returns, no map and no
\* array is reachable from the root through two different paths.
C15_NoSharing == plain.status = "ok" => Owned(Mapping(plain))

\* the line of the key of each top-level entry of an include file
IncludedLines(file) ==
  CASE file = "f" -> [x \in {"x", "a"} |-> IF x = "x" THEN 1 ELSE 3]
    [] file = "q" -> <<>>
    [] file = "u" -> [x \in {"x", "y"} |-> IF x = "x" THEN 1 ELSE 3]

KeyPositions(p, q, it) ==
  LET s   == Storing(p, it)
      top == Len(s.ctxs)
      one == it.typ \in {"String", "Integer", "Float", "Bool", "Datetime",
                         "Variable", "MapEnd", "ArrayEnd"}
      inc == it.typ = "Include" /\ it.val \in {"f", "q", "u"}
  IN  (p.pedantic /\ p.status = "running" /\ q.status = "running")
      => \* the two stacks of pending keys have one depth
         /\ Len(q.ikeys) = Len(q.keys)
         \* a key item is pushed on both, as it is
         /\ it.typ = "Key" => /\ q.keys = Append(p.keys, it.val)
                              /\ q.ikeys = Append(p.ikeys, it)
         \* a wrapper bound in a map has the place of the key token on top
         \* of the stack, the text of its own item and the file of the call
         /\ (one /\ IsMap(Ctx(s))) =>
              LET w == Stored(s, q)
                  k == s.ikeys[Len(s.ikeys)]
              IN  /\ w.item = [it EXCEPT !.line = k.line, !.pos = k.pos]
                  /\ w.sourceFile = p.fp
                  /\ q.ikeys = SubSeq(s.ikeys, 1, Len(s.ikeys) - 1)
         \* a wrapper appended to an array keeps the place of its own item
         /\ (one /\ IsArray(Ctx(s))) =>
              /\ Stored(s, q).item = it
              /\ Stored(s, q).sourceFile = p.fp
              /\ q.ikeys = s.ikeys
         \* a spliced wrapper keeps the place of its key in the include
         \* file, and that file
         /\ (inc /\ IsMap(Ctx(s))) =>
              /\ q.ikeys = p.ikeys
              /\ \A x \in DOMAIN IncludedLines(it.val) :
                   LET w == q.ctxs[top].m[x]
                   IN  /\ w.item.line = IncludedLines(it.val)[x]
                       /\ w.item.pos = w.item.line + w.item.line
                       /\ w.sourceFile = it.val

\* C16: in a pedantic parse a wrapper bound under a map key records the line
\* and position of the key token that is on top of the key-token stack, not
\* those of its value item or of the bracket that closes it, and the file of
\* the parse call that made it; a wrapper appended to an array keeps the
\* place of its own item; a wrapper spliced from an include keeps the place
\* of its key in the include file; and the key-token stack always has the
\* depth of the pending-key stack, a key item being pushed on both.
C16_KeyPositions == [][KeyPositions(ped, ped', cur')]_vars

\* C16 witness: the map opened after the key a of line 1 has been closed by
\* the bracket of line 5, and its wrapper has the line and position of a.
C16_Witness ==
  /\ cur.typ = "MapEnd" /\ n = 5
  /\ ped.status = "running" /\ Len(ped.ctxs) = 2
  /\ Binds(ped.ctxs[2], "a")
  /\ ped.ctxs[2].m["a"].item = [typ |-> "MapEnd", val |-> "", line |-> 1, pos |-> 2]
  /\ ped.ctxs[2].m["a"].sourceFile = ""
  /\ IsMap(ped.ctxs[2].m["a"].value)
  /\ ped.ctxs[2].m["a"].value.m["b"].item.line = 3

\* where a wrapper says its value was defined
Place(w) == <<w.sourceFile, w.item.line, w.item.pos>>

\* what C17 and its amendment share: the wrapper stored at the site of a
\* reference that resolves to the wrapper def is a new one, unmarked, made by
\* this call from the reference item, and holds the value of def, which
\* keeps its own place
FreshWrapper(p, q, it, i) ==
  LET def == p.ctxs[i].m[it.val]
      w   == Stored(p, q)
  IN  /\ q.status = "running"
      /\ w.value = def.value
      /\ ~w.usedVariable
      /\ w.sourceFile = p.fp
      /\ w.item.typ = "Variable" /\ w.item.val = it.val
      /\ (IsArray(Ctx(p)) \/ i # Len(p.ctxs) \/ p.keys[Len(p.keys)] # it.val)
            => Place(q.ctxs[i].m[it.val]) = Place(def)

ResolvesWrapped(p, it) ==
  /\ p.pedantic /\ p.status = "running" /\ CanStore(p)
  /\ IsReference(it) /\ Innermost(p, it.val) > 0

UseSiteOfReference(p, q, it) ==
  ResolvesWrapped(p, it) =>
    /\ FreshWrapper(p, q, it, Innermost(p, it.val))
    /\ Stored(p, q).item.line = it.line
    /\ Stored(p, q).item.pos = it.pos
    /\ Place(Stored(p, q)) # Place(p.ctxs[Innermost(p, it.val)].m[it.val])

\* C17 as claimed: the wrapper stored at the site of a reference that
\* resolves to a wrapped binding is a fresh one with the binding's value and
\* with the line and position of the reference token, not those of the
\* definition.
C17_UseSiteOfReference == [][UseSiteOfReference(ped, ped', cur')]_vars

UseSite(p, q, it) ==
  ResolvesWrapped(p, it) =>
    /\ FreshWrapper(p, q, it, Innermost(p, it.val))
    /\ IF IsArray(Ctx(p))
       THEN /\ Stored(p, q).item.line = it.line
            /\ Stored(p, q).item.pos = it.pos
       ELSE /\ Stored(p, q).item.line = p.ikeys[Len(p.ikeys)].line
            /\ Stored(p, q).item.pos = p.ikeys[Len(p.ikeys)].pos

\* C17 as amended: the fresh wrapper has the line and position of the
\* reference token when it is appended to an array, and those of the key
\* token on top of the key-token stack, the key of the use site, when it is
\* bound under a map key; the wrapper of the definition keeps its own.
C17_UseSite == [][UseSite(ped, ped', cur')]_vars

\* C17 witness: b = $a has been bound in the root map, where a is the map of
\* line 1: the wrapper of b holds that map and has the place of the key b
\* (line 6), not of the reference (line 7) nor of a (line 1).
C17_Witness ==
  /\ cur.typ = "Variable" /\ cur.val = "a" /\ n = 7
  /\ ped.status = "running" /\ Len(ped.ctxs) = 2
  /\ Binds(ped.ctxs[2], "a") /\ Binds(ped.ctxs[2], "b")
  /\ ped.ctxs[2].m["b"].value = ped.ctxs[2].m["a"].value
  /\ ped.ctxs[2].m["b"].item = [typ |-> "Variable", val |-> "a", line |-> 6, pos |-> 12]
  /\ ped.ctxs[2].m["a"].item.line = 1
  /\ ped.ctxs[2].m["a"].usedVariable /\ ~ped.ctxs[2].m["b"].usedVariable

\* the numeric prefixes that are base-10 signed 64-bit integers
ValidPrefixes ==
  {"0", "1", "8", "10", "+3", "-1", "-3", "9223372036854775", "9223372036854776",
   "9223372036854775807", "-9223372036854775808"}

\* the table entry that a suffix differs from in letter case only
TableEntry(suf) ==
  CASE suf = "K" -> "k"
    [] suf = "Mb" -> "mb"
    [] suf = "GiB" -> "gib"
    [] suf = "tIb" -> "tib"
    [] suf = "E" -> "e"
    [] OTHER -> suf

\* C18: a literal made of a numeric prefix and a run of letters decodes with
\* an invalid-integer error exactly when the prefix is no base-10 signed
\* 64-bit integer; otherwise, without error, a suffix that is a table entry
\* in any letter case scales the prefix by the multiplier of the entry (in
\* 64-bit arithmetic), and no suffix, or one that is not in the table,
\* leaves the prefix unscaled.
C18_SuffixTotal ==
  \A pre \in NumPrefixes, suf \in NumSuffixes :
    (dec.done /\ lit = pre \o suf) =>
      IF pre \notin ValidPrefixes
      THEN dec.err = [kind |-> "InvalidInteger", val |-> lit]
      ELSE /\ dec.err = NoErr
           /\ IF TableEntry(suf) \in TableSuffixes
              THEN /\ dec.v.n = SubSeq(ExactProduct(ParseInt(pre).n,
                                                    TableScale(TableEntry(suf))),
                                       1, Limbs64)
                   /\ dec.v = parseInteger(pre \o TableEntry(suf)).v
              ELSE dec.v.n = ParseInt(pre).n

\* C18 witness: 8K has been decoded to 8000.
C18_Witness ==
  /\ dec.done /\ dec.err = NoErr
  /\ lit = "8K" /\ dec.v = VInt(<<8000, 0, 0, 0>>)

\* the included document is parsed as a document of its own: by a parser
\* that starts from the initial context stack, on the pedantic flag of p
ParsedAlone(p, file) ==
  parseIncludeFile(p, file, 0) = parseIncludeFile(NewParser(p.fp, p.pedantic), file, 0)

\* a later reference to name in the scope of p, and in a map or an array
\* opened in that scope, resolves to v
VisibleLater(p, name, v) ==
  /\ Resolves(p, name, v)
  /\ Resolves(pushContext(p, NewMap(p.fp, 0)), name, v)
  /\ Resolves(pushContext(p, NewArray(p.fp, 0)), name, v)

IncludeOneWay(p, q, it) ==
  ( /\ it.typ = "Include"
    /\ p.status = "running" )
  => /\ ParsedAlone(p, it.val)
     /\ it.val = "v" =>
           /\ q.status = "failed"
           /\ q.err = [kind |-> "Include", file |-> "v",
                       cause |-> [kind |-> "VariableNotFound", val |-> "b", line |-> 2]]
     /\ (it.val = "u" /\ IsMap(Ctx(p))) =>
           /\ q.status = "running"
           /\ \A k \in {"x", "y"} :
                /\ Binds(Ctx(q), k)
                /\ Unwrap(Ctx(q).m[k]) = VStr("env")
                /\ IsToken(Ctx(q).m[k]) = p.pedantic
                /\ VisibleLater(q, k, VStr("env"))
     /\ (it.val = "f" /\ IsMap(Ctx(p))) =>
           /\ q.status = "running"
           /\ \A k \in DOMAIN IncludedEntries("f") :
                /\ IsToken(Ctx(q).m[k]) = p.pedantic
                /\ VisibleLater(q, k, IncludedEntries("f")[k])

\* C19: an included file is parsed on a context stack of its own and on the
\* pedantic flag of the including parse. A reference in it never resolves in
\* the including document: $b in the file v stays unresolved and fails the
\* include whatever the including document binds, and $a in the file u
\* resolves in the environment whatever the including document binds a to,
\* while $x in u resolves to the entry x of u itself. Once the directive has
\* been processed in a map, the top-level keys of the included document
\* resolve, to the included values, for references in that scope and in
\* containers opened in it.
C19_IncludeOneWay ==
  [][IncludeOneWay(plain, plain', cur') /\ IncludeOneWay(ped, ped', cur')]_vars

\* C19 witness: the including document binds a to 1 at its top level and
\* to "s" in the open map b; the include of u in that map has bound x and y
\* to the value of the environment variable a.
C19_Witness ==
  /\ cur.typ = "Include" /\ cur.val = "u" /\ n = 7
  /\ plain.status = "running" /\ Len(plain.ctxs) = 3 /\ IsMap(plain.ctxs[3])
  /\ DOMAIN plain.ctxs[2].m = {"a"} /\ DOMAIN plain.ctxs[3].m = {"a", "x", "y"}
  /\ plain.ctxs[2].m["a"] = VInt(<<1, 0, 0, 0>>)
  /\ plain.ctxs[3].m["a"] = VStr("s")
  /\ plain.ctxs[3].m["x"] = VStr("env") /\ plain.ctxs[3].m["y"] = VStr("env")
  /\ ped.status = "running" /\ Len(ped.ctxs) = 3
  /\ Strip(ped.ctxs[3]) = plain.ctxs[3]

RECURSIVE ClosedWithin(_)
\* the containers, as values, that the value v holds, itself included
ClosedWithin(v) ==
  IF IsToken(v) THEN ClosedWithin(v.value)
  ELSE IF IsMap(v) THEN {v} \cup UNION {ClosedWithin(v.m[x]) : x \in DOMAIN v.m}
  ELSE IF IsArray(v) THEN {v} \cup UNION {ClosedWithin(v.a[i]) : i \in DOMAIN v.a}
  ELSE {}

\* the values that the container c holds
Entries(c) ==
  IF IsMap(c) THEN {c.m[x] : x \in DOMAIN c.m} ELSE {c.a[i] : i \in DOMAIN c.a}

\* the closed containers of p: those held by the entries of its stack
ClosedIn(p) ==
  UNION {ClosedWithin(e) : e \in UNION {Entries(p.ctxs[i]) : i \in DOMAIN p.ctxs}}

\* the containers of p that are open: those on its stack
OpenIds(p) == {p.ctxs[i].id : i \in DOMAIN p.ctxs}

\* a value but for the flag that a later reference sets on its wrapper
Unflag(v) == IF IsToken(v) THEN [v EXCEPT !.usedVariable = FALSE] ELSE v

\* the top-level keys of the documents that include files hold
IncludedKeys(file) ==
  CASE file = "f" -> {"x", "a"}
    [] file = "u" -> {"x", "y"}
    [] OTHER -> {}

\* the keys of the current map that the step on `it` may store
Written(p, it) ==
  (IF Len(p.keys) > 0 THEN {p.keys[Len(p.keys)]} ELSE {})
  \cup (IF it.typ = "Include" THEN IncludedKeys(it.val) ELSE {})

\* no container bound anywhere is still open, and a container bound in two
\* places has the same content in both
BoundWhenClosed(q) ==
  \A c \in ClosedIn(q) :
    /\ c.id \notin OpenIds(q)
    /\ \A d \in ClosedIn(q) : d.id = c.id => d = c

\* a container that is closed after the step has the content it had before
\* the step, closed or open
ClosedUnmodified(p, q) ==
  \A d \in ClosedIn(q) :
    /\ \A c \in ClosedIn(p) : c.id = d.id => d = c
    /\ \A i \in DOMAIN p.ctxs : p.ctxs[i].id = d.id => d = p.ctxs[i]

\* the step changes no entry of an open container but the ones it stores:
\* entries of the current map under other keys, entries of the maps below
\* it and elements of arrays stay as they were, up to the used flag
OthersKept(p, q, it) ==
  \A i \in DOMAIN p.ctxs \cap DOMAIN q.ctxs :
    /\ q.ctxs[i].k = p.ctxs[i].k
    /\ q.ctxs[i].id = p.ctxs[i].id
    /\ IsMap(p.ctxs[i]) =>
         \A k \in DOMAIN p.ctxs[i].m :
           /\ k \in DOMAIN q.ctxs[i].m
           /\ \/ Unflag(q.ctxs[i].m[k]) = Unflag(p.ctxs[i].m[k])
              \/ i = Len(q.ctxs) /\ k \in Written(p, it)
    /\ IsArray(p.ctxs[i]) =>
         /\ Len(q.ctxs[i].a) >= Len(p.ctxs[i].a)
         /\ \A j \in DOMAIN p.ctxs[i].a : q.ctxs[i].a[j] = p.ctxs[i].a[j]

\* a reference resolves in the bindings that exist when it is processed:
\* found on the stack, it is the entry of a map of the stack and holds no
\* open container; bound nowhere and unset in the environment, it fails the
\* parse at once
BoundAtReference(p, q, it) ==
  IsReference(it) =>
    /\ \A r \in lookupVariable(p, it.val, 0) :
         (r.found /\ r.at > 0) =>
           /\ Binds(p.ctxs[r.at], it.val)
           /\ r.value = p.ctxs[r.at].m[it.val]
           /\ Containers(r.value) \cap OpenIds(p) = {}
    /\ ( /\ \A i \in DOMAIN p.ctxs : ~Binds(p.ctxs[i], it.val)
         /\ it.val \notin DOMAIN Env )
       => q.status = "failed"

DefineBeforeUse(p, q, it) ==
  (p.status = "running" /\ q.status = "running") =>
    /\ BoundWhenClosed(q)
    /\ ClosedUnmodified(p, q)
    /\ OthersKept(p, q, it)

\* C20: a reference resolves to what the context stack binds when it is
\* processed, and fails at once when nothing binds it; a container is bound
\* under its key only once it is closed, so a reference inside an open map
\* never resolves to that map; and no step changes a closed container or
\* any stored entry other than the ones it stores itself, so a value stored
\* through a reference stays as it is when the referenced key is redefined.
C20_DefineBeforeUse ==
  [][ /\ DefineBeforeUse(plain, plain', cur') /\ DefineBeforeUse(ped, ped', cur')
      /\ plain.status = "running" => BoundAtReference(plain, plain', cur')
      /\ ped.status = "running" => BoundAtReference(ped, ped', cur') ]_vars

\* C20 witness: b was stored as a reference to the closed map a, and a has
\* then been redefined as 2k: b is still the map.
C20_Witness ==
  /\ cur.typ = "Integer" /\ cur.val = "2k" /\ n = 9
  /\ plain.status = "running" /\ Len(plain.ctxs) = 2
  /\ DOMAIN plain.ctxs[2].m = {"a", "b"}
  /\ plain.ctxs[2].m["a"] = VInt(<<2000, 0, 0, 0>>)
  /\ plain.ctxs[2].m["b"] = [NewMap("", 2) EXCEPT !.m = [x \in {"b"} |-> VInt(<<1, 0, 0, 0>>)]]
  /\ ped.status = "running" /\ Len(ped.ctxs) = 2
  /\ Strip(ped.ctxs[2]) = plain.ctxs[2]

====
